---- MODULE Spec2Model ----
(***************************************************************************)
(* A model of fid_score_lsun_numpy.py: the activation extractor            *)
(* (get_activations_numpy), the distance evaluator                         *)
(* (calculate_frechet_distance) and the script's main routine              *)
(* (calculate_fid_mnist_npy).                                              *)
(*                                                                         *)
(* Numbers are fixed-point integers.  Activations and mean vectors count   *)
(* units of 1e-3, covariances (products of two activations) and the matrix *)
(* square root count units of 1e-6, and the product of two covariances     *)
(* counts units of 1e-12, so eps = 1e-6 is 1 and the tolerance 1e-3 on the *)
(* imaginary part is 1000.                                                 *)
(***************************************************************************)
EXTENDS Integers, Sequences, FiniteSets, TLC

\* ------------------------------------------------------------------ bounds
MaxImages == 7
MaxBatch == 7
MainMaxImages == 3
MainMaxBatch == 3

\* eps=1e-6 (default argument), in units of 1e-6
Eps == 1
\* atol=1e-3 of np.allclose, in units of 1e-6
ImagTol == 1000

\* the dimensionalities the feature network offers (the keys of
\* InceptionV3.BLOCK_INDEX_BY_DIM); the last one is delivered already pooled
Dims == {1, 2}
PooledDim == CHOOSE d \in Dims : \A e \in Dims : e <= d

\* raw pixel values of the input file, in halves: -1, 0 and 1
Pixels == {-2, 0, 2}
\* np.random.rand draws from [0, 1): in halves, 0 and 1
RandomPixels == {0, 1}
\* what np.empty may hold
GarbageVals == {0, 5}

VARIABLES
    \* ---- get_activations_numpy
    np_array,     \* the images handed in (each an image value)
    batch_size,   \* the local batch_size (clamped in place)
    req_batch,    \* the batch size the caller asked for
    dims,
    verbose,
    pred_arr,     \* the activation matrix, a sequence of rows
    i,            \* the loop variable of range(0, len, batch_size)
    apc,          \* "idle", "start", "loop", "done", "ValueError", "NameError"
    nwrites,      \* per row, how many batches wrote it
    fed,          \* the image indices fed to the network, in feeding order
    batches,      \* the <<start, end>> of every batch run
    \* ---- calculate_frechet_distance
    fdin,         \* the four arguments as passed
    mu1, sigma1, mu2, sigma2,   \* the locals after promotion
    diff, covmean,
    fpc,          \* "idle", "start", "sqrt", "imag", "sum", "returned",
                  \* "AssertionError", "ValueError"
    fret,         \* the value returned
    ferr,         \* what the exception reports
    ndot, nsqrtm, nfallback,
    \* ---- calculate_fid_mnist_npy
    mpc,
    file_exists, file_stats, input_file, rand_data,
    arg_batch, arg_dims,   \* --batch-size and --dims
    m1, s1, np_1, act2, m2, s2,
    exit_status,
    nloads,       \* how often the input array was loaded
    \* ---- standard output
    out

actVars == <<np_array, batch_size, req_batch, dims, verbose, pred_arr, i, apc,
             nwrites, fed, batches>>
fdVars == <<fdin, mu1, sigma1, mu2, sigma2, diff, covmean, fpc, fret, ferr,
            ndot, nsqrtm, nfallback>>
mainVars == <<mpc, file_exists, file_stats, input_file, rand_data,
              arg_batch, arg_dims,
              m1, s1, np_1, act2, m2, s2, exit_status, nloads>>
vars == <<actVars, fdVars, mainVars, out>>

\* ----------------------------------------------------------------- helpers
RECURSIVE SumTo(_, _)
SumTo(f, n) == IF n = 0 THEN 0 ELSE f[n] + SumTo(f, n - 1)

Min(a, b) == IF a < b THEN a ELSE b
Abs(a) == IF a < 0 THEN -a ELSE a

\* a[start:end] of a Python sequence (0-based, clamped to the length)
Slice(s, start, end) == SubSeq(s, start + 1, Min(end, Len(s)))

\* an array: its shape and its entries in row-major order
Arr(shape, data) == [shape |-> shape, data |-> data]
None == Arr(<<0>>, <<>>)

\* ------------------------------------------------- the feature network
\* np_1*0.5 + 0.5 on a pixel counted in halves
Rescale(p) == p \div 2 + 1

\* model(batch)[0] for one image: per channel the cells of its spatial map.
\* The network is an external collaborator; this is a deterministic stub
\* whose pooled feature for channel c is 2*q + c.
Net(q, d) ==
    [c \in 1..d |-> IF d = PooledDim THEN <<2 * q + c>>
                    ELSE <<2 * q + c - 1, 2 * q + c + 1>>]

\* adaptive_avg_pool2d(pred, (1, 1)) on one channel
AvgPool(cells) == <<SumTo(cells, Len(cells)) \div Len(cells)>>

\* lines 136-139: pool unless already 1x1, then flatten to one row
Features(q, d) ==
    LET pred == Net(q, d)
        pooled == [c \in 1..d |-> IF Len(pred[c]) # 1 THEN AvgPool(pred[c])
                                  ELSE pred[c]]
    IN [c \in 1..d |-> pooled[c][1]]

\* a batch that runs past the end of the array is not written
WriteRowsFullOnly(arr, start, end, rows) ==
    [r \in 1..Len(arr) |-> IF start < r /\ r <= end /\ end <= Len(arr)
                           THEN rows[r - start] ELSE arr[r]]

\* line 139, pred_arr[start:end] = rows: a slice assignment, clamped to the
\* length of the array
WriteRows(arr, start, end, rows) ==
    [r \in 1..Len(arr) |-> IF start < r /\ r <= end THEN rows[r - start]
                           ELSE arr[r]]

\* ------------------------------------------------ get_activations_numpy
\* lines 103-113: the clamp, the allocation and the evaluation of range()
ActStart ==
    /\ apc = "start"
    /\ LET n == Len(np_array)
           clamp == batch_size > n
           b == IF clamp THEN n ELSE batch_size
       IN /\ batch_size' = b
          /\ out' = out \o <<"shape", "len">> \o
                    (IF clamp THEN <<"Warning: batch size is bigger">> ELSE <<>>)
          /\ \E g \in GarbageVals :
                pred_arr' = [r \in 1..n |-> [c \in 1..dims |-> g]]
          /\ nwrites' = [r \in 1..n |-> 0]
          /\ i' = 0
          /\ apc' = IF b = 0 THEN "ValueError" ELSE "loop"
    /\ UNCHANGED <<np_array, req_batch, dims, verbose, fed, batches>>
    /\ UNCHANGED <<fdVars, mainVars>>

\* lines 113-139: one iteration of the loop
ActBatch ==
    /\ apc = "loop"
    /\ i < Len(np_array)
    /\ IF verbose
       THEN \* line 115 reads n_batches, which is never assigned
            /\ apc' = "NameError"
            /\ UNCHANGED <<pred_arr, nwrites, fed, batches, i>>
       ELSE LET start == i
                end == i + batch_size
                images == Slice(np_array, start, end)
                pred == [k \in 1..Len(images) |-> Features(images[k], dims)]
            IN /\ pred_arr' = WriteRows(pred_arr, start, end, pred)
               /\ nwrites' = [r \in 1..Len(pred_arr) |->
                                  IF start < r /\ r <= end
                                  THEN nwrites[r] + 1 ELSE nwrites[r]]
               /\ fed' = fed \o [k \in 1..Len(images) |-> start + k]
               /\ batches' = Append(batches, <<start, end>>)
               /\ i' = i + batch_size
               /\ apc' = apc
    /\ UNCHANGED <<np_array, batch_size, req_batch, dims, verbose, out>>
    /\ UNCHANGED <<fdVars, mainVars>>

\* lines 141-144: the loop is exhausted and pred_arr is returned
ActReturn ==
    /\ apc = "loop"
    /\ i >= Len(np_array)
    /\ apc' = "done"
    /\ out' = IF verbose THEN Append(out, " done") ELSE out
    /\ UNCHANGED <<np_array, batch_size, req_batch, dims, verbose, pred_arr, i,
                   nwrites, fed, batches>>
    /\ UNCHANGED <<fdVars, mainVars>>

\* ------------------------------------------------------------ array algebra
Rank(a) == Len(a.shape)

\* np.atleast_1d
AtLeast1d(a) == IF Rank(a) = 0 THEN Arr(<<1>>, a.data) ELSE a

\* np.atleast_2d
AtLeast2d(a) ==
    IF Rank(a) = 0 THEN Arr(<<1, 1>>, a.data)
    ELSE IF Rank(a) = 1 THEN Arr(<<1, a.shape[1]>>, a.data)
    ELSE a

Rows(a) == a.shape[1]
Cols(a) == a.shape[2]
At(a, r, c) == a.data[(r - 1) * Cols(a) + c]
Mat(rows, cols, f(_, _)) ==
    Arr(<<rows, cols>>,
        [k \in 1..(rows * cols) |-> f(((k - 1) \div cols) + 1, ((k - 1) % cols) + 1)])

\* a.dot(b) of two 2-D arrays is defined when the inner dimensions agree
DotDefined(a, b) == Cols(a) = Rows(b)
Dot(a, b) ==
    LET entry(r, c) ==
            LET term == [k \in 1..Cols(a) |-> At(a, r, k) * At(b, k, c)]
            IN SumTo(term, Cols(a))
    IN Mat(Rows(a), Cols(b), entry)

\* v.dot(v) of a 1-D array
Dot1(v) == SumTo([k \in 1..Len(v.data) |-> v.data[k] * v.data[k]], Len(v.data))

\* np.trace of a 2-D array
Trace(a) ==
    LET n == Min(Rows(a), Cols(a))
    IN SumTo([k \in 1..n |-> At(a, k, k)], n)

\* sigma + np.eye(n) * eps
AddOffset(a, eps) ==
    LET entry(r, c) == At(a, r, c) + (IF r = c THEN eps ELSE 0)
    IN Mat(Rows(a), Cols(a), entry)

\* mu1 - mu2 of two 1-D arrays of one shape
Sub(a, b) == Arr(a.shape, [k \in 1..Len(a.data) |-> a.data[k] - b.data[k]])

\* ------------------------------------------------------ scipy.linalg.sqrtm
\* the integer square root, by bisection on lo <= root < hi
RECURSIVE ISqrtIn(_, _, _)
ISqrtIn(n, lo, hi) ==
    IF hi - lo <= 1 THEN lo
    ELSE LET mid == (lo + hi) \div 2
         IN IF mid * mid <= n THEN ISqrtIn(n, mid, hi) ELSE ISqrtIn(n, lo, mid)
ISqrt(n) == ISqrtIn(n, 0, 46341)

\* division rounding towards zero
Quot(a, b) == IF (a < 0) = (b < 0) THEN Abs(a) \div Abs(b)
              ELSE -(Abs(a) \div Abs(b))

Cx(re, im) == [re |-> re, im |-> im]

\* the principal square root of one diagonal entry t (units 1e-12), in units
\* of 1e-6: imaginary for a negative entry
SqrtDiag(t) == IF t >= 0 THEN Cx(ISqrt(t), 0) ELSE Cx(0, ISqrt(-t))

\* num / (x + s*i) for a real num (units 1e-12) and x, s >= 0 not both 0
DivCx(num, x, s) ==
    IF s = 0 THEN Cx(Quot(num, x), 0)
    ELSE IF x = 0 THEN Cx(0, -Quot(num, s))
    ELSE Cx(Quot(num * x, x * x + s * s), -Quot(num * s, x * x + s * s))

IsUpperTriangular(t) ==
    \A r \in 1..Rows(t) : \A c \in 1..Cols(t) : r > c => At(t, r, c) = 0

\* sqrtm of an upper triangular real matrix t of order 1 or 2, which is its
\* own Schur form: the diagonal is rooted entry by entry, the entry above it
\* is T01 / (R00 + R11), and when that denominator is 0 with a numerator that
\* is not, no root is found and the result is filled with NaN.
\* finite: every entry is finite; complex: the result has a complex dtype
\* (some diagonal entry of t is negative); e: the entries, row-major.
Sqrtm(t) ==
    LET n == Rows(t)
        r1 == SqrtDiag(At(t, 1, 1))
    IN IF n = 1
       THEN [finite |-> TRUE, complex |-> At(t, 1, 1) < 0, n |-> 1, e |-> <<r1>>]
       ELSE LET r2 == SqrtDiag(At(t, 2, 2))
                x == r1.re + r2.re
                s == r1.im + r2.im
                num == At(t, 1, 2)
                cplx == At(t, 1, 1) < 0 \/ At(t, 2, 2) < 0
            IN IF x = 0 /\ s = 0 /\ num # 0
               THEN [finite |-> FALSE, complex |-> FALSE, n |-> 2, e |-> <<>>]
               ELSE [finite |-> TRUE, complex |-> cplx, n |-> 2,
                     e |-> <<r1,
                             IF x = 0 /\ s = 0 THEN Cx(0, 0) ELSE DivCx(num, x, s),
                             Cx(0, 0),
                             r2>>]

\* np.isfinite(covmean).all()
AllFinite(cm) == cm.finite

\* np.iscomplexobj(covmean)
IsComplexObj(cm) == cm.complex

\* np.diagonal(covmean)
DiagIdx(cm) == {(k - 1) * cm.n + k : k \in 1..cm.n}

\* the tolerance applied to every entry, not to the diagonal alone
AllImagClose(cm) == \A k \in DOMAIN cm.e : Abs(cm.e[k].im) <= ImagTol

\* np.allclose(np.diagonal(covmean).imag, 0, atol=1e-3)
DiagImagClose(cm) == \A k \in DiagIdx(cm) : Abs(cm.e[k].im) <= ImagTol

\* np.max(np.abs(covmean.imag))
MaxAbsImag(cm) ==
    CHOOSE m \in {Abs(cm.e[k].im) : k \in DOMAIN cm.e} :
        \A k \in DOMAIN cm.e : Abs(cm.e[k].im) <= m

\* covmean.real
RealPart(cm) == [cm EXCEPT !.complex = FALSE,
                           !.e = [k \in DOMAIN cm.e |-> Cx(cm.e[k].re, 0)]]

\* np.trace(covmean): NaN when the entries are
TraceCx(cm) ==
    IF cm.finite
    THEN [finite |-> TRUE,
          val |-> SumTo([k \in 1..cm.n |-> cm.e[(k - 1) * cm.n + k].re], cm.n)]
    ELSE [finite |-> FALSE, val |-> 0]

\* ------------------------------------------- calculate_frechet_distance
NoMatrix == [finite |-> TRUE, complex |-> FALSE, n |-> 0, e |-> <<>>]
NoValue == [finite |-> TRUE, val |-> 0]
NoError == [msg |-> "", m |-> 0]

\* what a caller sets up to enter the function
FDCall(a1, c1, a2, c2) ==
    /\ fdin' = [mu1 |-> a1, sigma1 |-> c1, mu2 |-> a2, sigma2 |-> c2]
    /\ mu1' = a1 /\ sigma1' = c1 /\ mu2' = a2 /\ sigma2' = c2
    /\ diff' = None /\ covmean' = NoMatrix
    /\ fret' = NoValue /\ ferr' = NoError
    /\ ndot' = 0 /\ nsqrtm' = 0 /\ nfallback' = 0
    /\ fpc' = "start"

\* a comparison of the number of dimensions only
SameRank(a, b) == Rank(a) = Rank(b)

\* lines 174 and 176: a.shape == b.shape
SameShape(a, b) == a.shape = b.shape

\* lines 168-177: the promotions, then the two shape assertions
FDEnter ==
    /\ fpc = "start"
    /\ LET a1 == AtLeast1d(mu1)
           a2 == AtLeast1d(mu2)
           c1 == AtLeast2d(sigma1)
           c2 == AtLeast2d(sigma2)
       IN /\ mu1' = a1 /\ mu2' = a2 /\ sigma1' = c1 /\ sigma2' = c2
          /\ IF ~SameShape(a1, a2)
             THEN /\ fpc' = "AssertionError"
                  /\ ferr' = [msg |-> "Training and test mean vectors have different lengths",
                              m |-> 0]
             ELSE IF ~SameShape(c1, c2)
             THEN /\ fpc' = "AssertionError"
                  /\ ferr' = [msg |-> "Training and test covariances have different dimensions",
                              m |-> 0]
             ELSE /\ fpc' = "sqrt"
                  /\ ferr' = ferr
    /\ UNCHANGED <<fdin, diff, covmean, fret, ndot, nsqrtm, nfallback, out>>
    /\ UNCHANGED <<actVars, mainVars>>

\* a variant of the trigger: the product is singular
NeedsFallbackIfSingular(first, prod) ==
    \/ ~AllFinite(first)
    \/ \E k \in 1..Rows(prod) : At(prod, k, k) = 0

\* line 183: the retry is taken when the first root is not entirely finite
NeedsFallback(first, prod) == ~AllFinite(first)

\* lines 179-188: the difference of the means, the square root of the
\* product and, when it is not finite, the retry with eps on the diagonals
FDSqrt ==
    /\ fpc = "sqrt"
    /\ diff' = Sub(mu1, mu2)
    /\ IF ~DotDefined(sigma1, sigma2)
       THEN /\ fpc' = "ValueError"
            /\ ferr' = [msg |-> "shapes not aligned", m |-> 0]
            /\ UNCHANGED <<covmean, ndot, nsqrtm, nfallback, out>>
       ELSE LET prod == Dot(sigma1, sigma2)
                first == Sqrtm(prod)
            IN IF NeedsFallback(first, prod)
               THEN /\ out' = Append(out, <<"fid calculation produces singular product; adding eps to diagonal of cov estimates", Eps>>)
                    /\ covmean' = Sqrtm(Dot(AddOffset(sigma1, Eps),
                                            AddOffset(sigma2, Eps)))
                    /\ ndot' = ndot + 2 /\ nsqrtm' = nsqrtm + 2
                    /\ nfallback' = nfallback + 1
                    /\ fpc' = "imag"
                    /\ ferr' = ferr
               ELSE /\ covmean' = first
                    /\ ndot' = ndot + 1 /\ nsqrtm' = nsqrtm + 1
                    /\ fpc' = "imag"
                    /\ UNCHANGED <<nfallback, out, ferr>>
    /\ UNCHANGED <<fdin, mu1, sigma1, mu2, sigma2, fret>>
    /\ UNCHANGED <<actVars, mainVars>>

\* lines 191-195: the check of the imaginary part
FDImag ==
    /\ fpc = "imag"
    /\ IF IsComplexObj(covmean)
       THEN IF ~DiagImagClose(covmean)
            THEN /\ fpc' = "ValueError"
                 /\ ferr' = [msg |-> "Imaginary component", m |-> MaxAbsImag(covmean)]
                 /\ covmean' = covmean
            ELSE /\ covmean' = RealPart(covmean)
                 /\ fpc' = "sum"
                 /\ ferr' = ferr
       ELSE /\ fpc' = "sum"
            /\ UNCHANGED <<covmean, ferr>>
    /\ UNCHANGED <<fdin, mu1, sigma1, mu2, sigma2, diff, fret, ndot, nsqrtm,
                   nfallback, out>>
    /\ UNCHANGED <<actVars, mainVars>>

\* the trace of the root subtracted once
DistanceRootOnce(d, c1, c2, tr) ==
    [finite |-> tr.finite,
     val |-> IF tr.finite THEN Dot1(d) + Trace(c1) + Trace(c2) - tr.val ELSE 0]

\* the trace of the first covariance taken for both
DistanceFirstTrace(d, c1, c2, tr) ==
    [finite |-> tr.finite,
     val |-> IF tr.finite THEN Dot1(d) + 2 * Trace(c1) - 2 * tr.val ELSE 0]

\* lines 199-200: the sum that is returned
Distance(d, c1, c2, tr) ==
    [finite |-> tr.finite,
     val |-> IF tr.finite THEN Dot1(d) + Trace(c1) + Trace(c2) - 2 * tr.val ELSE 0]

\* lines 197-200
FDReturn ==
    /\ fpc = "sum"
    /\ LET tr_covmean == TraceCx(covmean)
       IN fret' = Distance(diff, sigma1, sigma2, tr_covmean)
    /\ fpc' = "returned"
    /\ UNCHANGED <<fdin, mu1, sigma1, mu2, sigma2, diff, covmean, ferr, ndot,
                   nsqrtm, nfallback, out>>
    /\ UNCHANGED <<actVars, mainVars>>


\* ------------------------------------------------------- np.mean and np.cov
ColSum(act, j) == SumTo([r \in 1..Len(act) |-> act[r][j]], Len(act))

\* np.mean(act, axis=0): one mean per column
MeanOf(act, d) ==
    Arr(<<d>>, [j \in 1..d |-> ColSum(act, j) \div Len(act)])

\* the sum of the centred cross-products of columns j and k
CrossSum(act, avg, j, k) ==
    SumTo([r \in 1..Len(act) |-> (act[r][j] - avg.data[j]) * (act[r][k] - avg.data[k])],
          Len(act))

\* the normalisation by N (ddof = 0)
CovOfBiased(act, d) ==
    LET avg == MeanOf(act, d)
        entry(j, k) == Quot(CrossSum(act, avg, j, k), Len(act))
        c == Mat(d, d, entry)
    IN IF d = 1 THEN Arr(<<>>, c.data) ELSE c

\* np.cov(act, rowvar=False) for two rows or more: the columns are the
\* variables, the sum of centred cross-products is divided by N - 1, and
\* the result is squeezed (0-d for a single column)
CovOf(act, d) ==
    LET avg == MeanOf(act, d)
        entry(j, k) == Quot(CrossSum(act, avg, j, k), Len(act) - 1)
        c == Mat(d, d, entry)
    IN IF d = 1 THEN Arr(<<>>, c.data) ELSE c

\* ------------------------------------------------- calculate_fid_mnist_npy
\* what a caller sets up to enter get_activations_numpy (verbose is never
\* passed and keeps its default)
ActCall(arr, b, d) ==
    /\ np_array' = arr /\ batch_size' = b /\ req_batch' = b /\ dims' = d
    /\ verbose' = FALSE
    /\ pred_arr' = <<>> /\ i' = 0 /\ nwrites' = <<>> /\ fed' = <<>>
    /\ batches' = <<>>
    /\ apc' = "start"

\* lines 206-219: the reference statistics are loaded, or the run exits
MainStart ==
    /\ mpc = "start"
    /\ IF file_exists
       THEN /\ m1' = file_stats[1] /\ s1' = file_stats[2]
            /\ mpc' = "load"
            /\ UNCHANGED <<out, exit_status>>
       ELSE /\ out' = Append(out, "could not find precomputed lsun stats, exiting")
            /\ exit_status' = 0
            /\ mpc' = "exited"
            /\ UNCHANGED <<m1, s1>>
    /\ UNCHANGED <<file_exists, file_stats, input_file, rand_data, arg_batch, arg_dims, np_1, act2,
                   m2, s2, nloads>>
    /\ UNCHANGED <<actVars, fdVars>>

\* lines 223-227: the input array is loaded and rescaled, and the extractor
\* is entered
MainLoad ==
    /\ mpc = "load"
    /\ LET loaded == [r \in 1..Len(input_file) |-> Rescale(input_file[r])]
       IN /\ np_1' = loaded
          /\ ActCall(loaded, arg_batch, arg_dims)
    /\ nloads' = nloads + 1
    /\ out' = Append(out, "min max")
    /\ mpc' = "act1"
    /\ UNCHANGED <<file_exists, file_stats, input_file, rand_data, arg_batch, arg_dims, m1, s1,
                   act2, m2, s2, exit_status>>
    /\ UNCHANGED fdVars

\* lines 227-231 and 237-241: the activations come back, their moments are
\* taken and the evaluator is entered
MainMoments ==
    /\ mpc \in {"act1", "act2"}
    /\ apc = "done"
    /\ act2' = pred_arr
    /\ m2' = MeanOf(pred_arr, dims)
    /\ s2' = CovOf(pred_arr, dims)
    /\ FDCall(m1, s1, m2', s2')
    /\ mpc' = IF mpc = "act1" THEN "fid1" ELSE "fid2"
    /\ UNCHANGED <<file_exists, file_stats, input_file, rand_data, arg_batch, arg_dims, m1, s1,
                   np_1, exit_status, nloads, out>>
    /\ UNCHANGED actVars

\* lines 233-243: the distance is printed; with rand_data set, a random
\* array of the shape of the input is drawn and the extractor is entered
\* again
MainPrint ==
    /\ mpc \in {"fid1", "fid2"}
    /\ fpc = "returned"
    /\ IF mpc = "fid1"
       THEN /\ out' = Append(out, <<"FID: ", fret>>)
            /\ IF rand_data
               THEN /\ \E drawn \in [1..Len(np_1) -> RandomPixels] :
                          ActCall(drawn, arg_batch, arg_dims)
                    /\ mpc' = "act2"
                    /\ UNCHANGED exit_status
               ELSE /\ mpc' = "done"
                    /\ exit_status' = 0
                    /\ UNCHANGED actVars
       ELSE /\ out' = Append(out, <<"FID rand data: ", fret>>)
            /\ mpc' = "done"
            /\ exit_status' = 0
            /\ UNCHANGED actVars
    /\ UNCHANGED <<file_exists, file_stats, input_file, rand_data, arg_batch, arg_dims, m1, s1,
                   np_1, act2, m2, s2, nloads>>
    /\ UNCHANGED fdVars

\* an exception of a callee is not caught: the interpreter prints the
\* traceback and exits with status 1
MainCrash ==
    /\ \/ mpc \in {"act1", "act2"} /\ apc \in {"ValueError", "NameError"}
       \/ mpc \in {"fid1", "fid2"} /\ fpc \in {"AssertionError", "ValueError"}
    /\ mpc' = "crashed"
    /\ exit_status' = 1
    /\ out' = Append(out, "Traceback")
    /\ UNCHANGED <<file_exists, file_stats, input_file, rand_data, arg_batch, arg_dims, m1, s1,
                   np_1, act2, m2, s2, nloads>>
    /\ UNCHANGED <<actVars, fdVars>>

\* ---------------------------------------------------------- idle components
ActIdle ==
    /\ np_array = <<>> /\ batch_size = 0 /\ req_batch = 0 /\ dims = 0
    /\ verbose = FALSE /\ pred_arr = <<>> /\ i = 0 /\ apc = "idle"
    /\ nwrites = <<>> /\ fed = <<>> /\ batches = <<>>

FDIdle ==
    /\ fdin = [mu1 |-> None, sigma1 |-> None, mu2 |-> None, sigma2 |-> None]
    /\ mu1 = None /\ sigma1 = None /\ mu2 = None /\ sigma2 = None
    /\ diff = None /\ covmean = NoMatrix /\ fret = NoValue /\ ferr = NoError
    /\ ndot = 0 /\ nsqrtm = 0 /\ nfallback = 0 /\ fpc = "idle"

MainIdle ==
    /\ mpc = "idle" /\ file_exists = FALSE /\ file_stats = <<None, None>>
    /\ input_file = <<>> /\ rand_data = FALSE /\ arg_batch = 0 /\ arg_dims = 0
    /\ m1 = None /\ s1 = None /\ np_1 = <<>> /\ act2 = <<>>
    /\ m2 = None /\ s2 = None /\ exit_status = -1 /\ nloads = 0

\* ------------------------------------------------------------------ inputs
RECURSIVE SeqsUpTo(_, _)
SeqsUpTo(S, n) ==
    IF n = 0 THEN {<<>>}
    ELSE LET shorter == SeqsUpTo(S, n - 1)
         IN shorter \cup {Append(q, x) : q \in {t \in shorter : Len(t) = n - 1}, x \in S}

\* images as get_activations_numpy receives them: two of the rescaled values
ActImages == {Rescale(p) : p \in {-2, 2}}

\* mean vectors: a 0-d scalar, and 1-D arrays of length 1 and 2
MuArrs == {Arr(<<>>, <<3>>), Arr(<<1>>, <<0>>),
           Arr(<<2>>, <<0, 3>>), Arr(<<2>>, <<3, 0>>)}

\* covariance entries: -1e-2, -1e-4, -1e-6, 0, 1e-4, 1e-2
DiagVals == {-10000, -100, -1, 0, 100, 10000}
OffVals == {0, 10}

\* covariances: 0-d, 1-D and 2-D arrays; the 2 x 2 ones upper triangular
SigmaArrs ==
    {Arr(sh, <<a>>) : sh \in {<<>>, <<1>>, <<1, 1>>}, a \in {0, 100}}
    \cup {Arr(<<2>>, <<0, 0>>), Arr(<<2>>, <<100, 0>>)}
    \cup {Arr(<<2, 2>>, <<a, b, 0, c>>) : a \in DiagVals, b \in OffVals, c \in DiagVals}

\* the reference statistics a file may hold: a mean of length D and a D x D
\* covariance, for D = 1 and D = 2
FileStats ==
    {<<Arr(<<1>>, <<3>>), Arr(<<1, 1>>, <<4>>)>>,
     <<Arr(<<1>>, <<0>>), Arr(<<1, 1>>, <<0>>)>>,
     <<Arr(<<1>>, <<3>>), Arr(<<1, 1>>, <<-1000000>>)>>,
     <<Arr(<<2>>, <<3, 4>>), Arr(<<2, 2>>, <<0, 0, 0, 0>>)>>,
     <<Arr(<<2>>, <<0, 0>>), Arr(<<2, 2>>, <<0, 10, 0, 0>>)>>}

\* ---------------------------------------------------------- specifications
InitAct ==
    /\ np_array \in SeqsUpTo(ActImages, MaxImages)
    /\ batch_size \in 0..MaxBatch
    /\ req_batch = batch_size
    /\ dims \in Dims
    /\ verbose \in BOOLEAN
    /\ pred_arr = <<>> /\ i = 0 /\ apc = "start"
    /\ nwrites = <<>> /\ fed = <<>> /\ batches = <<>>
    /\ FDIdle /\ MainIdle
    /\ out = <<>>

NextAct == ActStart \/ ActBatch \/ ActReturn

SpecAct == InitAct /\ [][NextAct]_vars

InitFD ==
    /\ \E a1 \in MuArrs, a2 \in MuArrs, c1 \in SigmaArrs, c2 \in SigmaArrs :
          /\ fdin = [mu1 |-> a1, sigma1 |-> c1, mu2 |-> a2, sigma2 |-> c2]
          /\ mu1 = a1 /\ sigma1 = c1 /\ mu2 = a2 /\ sigma2 = c2
    /\ diff = None /\ covmean = NoMatrix /\ fret = NoValue /\ ferr = NoError
    /\ ndot = 0 /\ nsqrtm = 0 /\ nfallback = 0 /\ fpc = "start"
    /\ ActIdle /\ MainIdle
    /\ out = <<>>

NextFD == FDEnter \/ FDSqrt \/ FDImag \/ FDReturn

SpecFD == InitFD /\ [][NextFD]_vars

\* the script run on an input file of two images or more
InitMain ==
    /\ file_exists \in BOOLEAN
    /\ file_stats \in FileStats
    /\ input_file \in {q \in SeqsUpTo(Pixels, MainMaxImages) : Len(q) >= 2}
    /\ rand_data \in BOOLEAN
    /\ arg_batch \in 0..MainMaxBatch
    /\ arg_dims \in Dims
    /\ mpc = "start"
    /\ m1 = None /\ s1 = None /\ np_1 = <<>> /\ act2 = <<>>
    /\ m2 = None /\ s2 = None /\ exit_status = -1 /\ nloads = 0
    /\ ActIdle /\ FDIdle
    /\ out = <<>>

NextMain ==
    \/ MainStart \/ MainLoad \/ MainMoments \/ MainPrint \/ MainCrash
    \/ ActStart \/ ActBatch \/ ActReturn
    \/ FDEnter \/ FDSqrt \/ FDImag \/ FDReturn

SpecMain == InitMain /\ [][NextMain]_vars

\* ================================================================ claims
Count(q, x) == Cardinality({k \in DOMAIN q : q[k] = x})
SingularMsg == <<"fid calculation produces singular product; adding eps to diagonal of cov estimates", Eps>>

\* --------------------------------------------------- get_activations_numpy
Iota(n) == [k \in 1..n |-> k]
RowsWritten == {r \in DOMAIN nwrites : nwrites[r] > 0}

\* C1 as stated: with 1 <= b <= N only the floor(N/b) full batches are run:
\* b*floor(N/b) images are fed to the network, in order, and as many
\* activations are produced.
C1_AsStated ==
    (apc = "done" /\ 1 <= req_batch /\ req_batch <= Len(np_array))
    => LET full == req_batch * (Len(np_array) \div req_batch)
       IN /\ Len(batches) = Len(np_array) \div req_batch
          /\ fed = Iota(full)
          /\ Cardinality(RowsWritten) = full

\* C6 as stated: a requested batch size above the image count is clamped to
\* the count with a warning, and the call does not end in an error.
C6_AsStated ==
    (apc # "start" /\ req_batch > Len(np_array))
    => /\ batch_size = Len(np_array)
       /\ Count(out, "Warning: batch size is bigger") = 1
       /\ apc \notin {"ValueError", "NameError"}

FDPastEnter == fpc \notin {"idle", "start"}
FDPastSqrt ==
    \/ fpc \in {"imag", "sum", "returned"}
    \/ fpc = "ValueError" /\ ferr.msg = "Imaginary component"
FDTerminal == fpc \in {"returned", "AssertionError", "ValueError"}


\* the shapes np.atleast_1d and np.atleast_2d give, stated on shapes alone
Shape1d(sh) == IF sh = <<>> THEN <<1>> ELSE sh
Shape2d(sh) == IF sh = <<>> THEN <<1, 1>>
               ELSE IF Len(sh) = 1 THEN <<1>> \o sh ELSE sh

\* C3 as stated: whenever the mean vectors passed in differ in shape, or the
\* covariance matrices passed in differ in shape, the call ends in the
\* assertion failure, before any matrix product or square root, and returns
\* no distance.
C3_AsStated ==
    (FDPastEnter /\ (\/ fdin.mu1.shape # fdin.mu2.shape
                     \/ fdin.sigma1.shape # fdin.sigma2.shape))
    => (fpc = "AssertionError" /\ ndot = 0 /\ nsqrtm = 0 /\ fret = NoValue)

\* C3 as amended: the shapes compared are those after promotion (means to at
\* least 1-D, covariances to at least 2-D).  The call ends in the assertion
\* failure exactly when the promoted shapes differ, and then no product, no
\* square root and no distance has been computed.
C3_ShapeContract ==
    FDPastEnter =>
        LET differ == \/ Shape1d(fdin.mu1.shape) # Shape1d(fdin.mu2.shape)
                      \/ Shape2d(fdin.sigma1.shape) # Shape2d(fdin.sigma2.shape)
        IN /\ differ <=> fpc = "AssertionError"
           /\ fpc = "AssertionError" =>
                 /\ ndot = 0 /\ nsqrtm = 0 /\ fret = NoValue
                 /\ ferr.msg = IF Shape1d(fdin.mu1.shape) # Shape1d(fdin.mu2.shape)
                               THEN "Training and test mean vectors have different lengths"
                               ELSE "Training and test covariances have different dimensions"

\* the covariance shapes differ (the means agree) and the assertion fired
C3_Witness ==
    /\ fpc = "AssertionError"
    /\ Shape1d(fdin.mu1.shape) = Shape1d(fdin.mu2.shape)
    /\ fdin.sigma1.shape = <<1, 1>> /\ fdin.sigma2.shape = <<2, 2>>

AllZero(a) == \A k \in DOMAIN a.data : a.data[k] = 0

\* C4 as stated: whenever the covariance product is singular (in particular
\* for two all-zero covariances of one shape) the eps fallback has been
\* applied exactly once, with its diagnostic, and the value returned is
\* finite.
C4_AsStated ==
    (FDPastSqrt /\ \E k \in 1..Rows(sigma1) :
                      At(sigma1, k, k) * At(sigma2, k, k) = 0)
    => /\ nfallback = 1
       /\ Count(out, SingularMsg) = 1
       /\ fpc = "returned" => fret.finite

\* C4 as amended: the fallback is taken exactly when the first square root
\* has a non-finite entry, never twice, with one diagnostic naming eps, and
\* its result is the root of the product of the two covariances with eps on
\* their diagonals.  Two all-zero covariances of one shape have the finite
\* zero matrix as first root: no fallback is taken, nothing is raised and
\* the finite value |mu1 - mu2|^2 is returned.
C4_Fallback ==
    FDPastSqrt =>
        LET firstFinite ==
                \/ Rows(sigma1) = 1
                \/ ~(/\ At(sigma1, 1, 1) * At(sigma2, 1, 1) = 0
                     /\ At(sigma1, 2, 2) * At(sigma2, 2, 2) = 0
                     /\ At(sigma1, 1, 1) * At(sigma2, 1, 2)
                          + At(sigma1, 1, 2) * At(sigma2, 2, 2) # 0)
            offset1 == [k \in DOMAIN sigma1.data |->
                          sigma1.data[k] + (IF k \in {1, Len(sigma1.data)} THEN Eps ELSE 0)]
            offset2 == [k \in DOMAIN sigma2.data |->
                          sigma2.data[k] + (IF k \in {1, Len(sigma2.data)} THEN Eps ELSE 0)]
        IN /\ nfallback = (IF firstFinite THEN 0 ELSE 1)
           /\ nsqrtm = 1 + nfallback /\ ndot = 1 + nfallback
           /\ Count(out, SingularMsg) = nfallback
           /\ (nfallback = 1 /\ fpc = "imag") =>
                 covmean = Sqrtm(Dot(Arr(sigma1.shape, offset1),
                                     Arr(sigma2.shape, offset2)))
           /\ (AllZero(sigma1) /\ AllZero(sigma2)) =>
                 /\ nfallback = 0
                 /\ fpc # "ValueError"
                 /\ fpc = "returned" => (fret.finite /\ fret.val = Dot1(diff))

\* the fallback was taken and a finite distance came back
C4_Witness ==
    /\ fpc = "returned" /\ nfallback = 1 /\ fret.finite
    /\ Count(out, SingularMsg) = 1

\* the root as it left the square-root step, before the imaginary part is
\* looked at
RootTaken ==
    IF nfallback = 1
    THEN Sqrtm(Dot(AddOffset(sigma1, Eps), AddOffset(sigma2, Eps)))
    ELSE Sqrtm(Dot(sigma1, sigma2))

\* C5: once the root is there, a complex root with a diagonal entry whose
\* imaginary part exceeds 1e-3 in magnitude ends the call with the error
\* that reports the largest imaginary magnitude of the root, and no distance;
\* in every other case the imaginary part is dropped and the trace term of
\* the returned value is the trace of the real part.
C5_Imaginary ==
    LET root == RootTaken
        corner(k) == root.e[IF k = 1 THEN 1 ELSE root.n * root.n]
        large == /\ root.finite /\ root.complex
                 /\ \E k \in 1..root.n : Abs(corner(k).im) > ImagTol
        realTrace == IF root.n = 1 THEN root.e[1].re
                     ELSE root.e[1].re + root.e[4].re
    IN /\ (fpc = "ValueError" /\ ferr.msg = "Imaginary component") =>
            /\ large
            /\ \A k \in DOMAIN root.e : Abs(root.e[k].im) <= ferr.m
            /\ \E k \in DOMAIN root.e : Abs(root.e[k].im) = ferr.m
            /\ fret = NoValue
       /\ fpc \in {"sum", "returned"} =>
            /\ ~large
            /\ ~covmean.complex
            /\ covmean.finite => \A k \in DOMAIN covmean.e :
                                    /\ covmean.e[k].im = 0
                                    /\ covmean.e[k].re = root.e[k].re
       /\ (fpc = "returned" /\ root.finite) =>
            /\ fret.finite
            /\ fret.val = Dot1(diff) + Trace(sigma1) + Trace(sigma2) - 2 * realTrace

\* the error was raised for a 2 x 2 root with one diagonal entry within the
\* tolerance and one beyond it
C5_Witness ==
    /\ fpc = "ValueError" /\ ferr.msg = "Imaginary component"
    /\ covmean.n = 2
    /\ ferr.m > ImagTol
    /\ Abs(covmean.e[1].im) <= ImagTol /\ Abs(covmean.e[4].im) > ImagTol

\* a Gaussian summary: a mean of length D and a symmetric positive
\* semi-definite D x D covariance (D is 1 or 2)
IsGaussian(mu, sigma) ==
    LET m == AtLeast1d(mu)
        c == AtLeast2d(sigma)
    IN /\ Rank(m) = 1 /\ Rows(c) = Cols(c) /\ m.shape[1] = Rows(c)
       /\ \A k \in 1..Rows(c) : At(c, k, k) >= 0
       /\ Rows(c) = 2 => /\ At(c, 1, 2) = At(c, 2, 1)
                         /\ At(c, 1, 1) * At(c, 2, 2) >= At(c, 1, 2) * At(c, 2, 1)

\* C7: a Gaussian summary compared against itself is at distance 0: the
\* call returns, the mean term is 0 and twice the trace of the root cancels
\* the two traces.
C7_SelfDistance ==
    (FDTerminal /\ fdin.mu1 = fdin.mu2 /\ fdin.sigma1 = fdin.sigma2
                /\ IsGaussian(fdin.mu1, fdin.sigma1))
    => /\ fpc = "returned"
       /\ fret.finite /\ fret.val = 0
       /\ Dot1(diff) = 0
       /\ 2 * TraceCx(covmean).val = Trace(sigma1) + Trace(sigma2)

\* a 2 x 2 covariance with both variances positive, against itself
C7_Witness ==
    /\ fpc = "returned" /\ fdin.mu1 = fdin.mu2 /\ fdin.sigma1 = fdin.sigma2
    /\ IsGaussian(fdin.mu1, fdin.sigma1)
    /\ Rows(sigma1) = 2 /\ At(sigma1, 1, 1) > 0 /\ At(sigma1, 2, 2) > 0
    /\ At(sigma1, 1, 1) # At(sigma1, 2, 2)
    /\ fret.val = 0

\* the whole function on its four arguments: where it ends, what it returns
\* or reports, and whether the fallback was taken
FrechetOutcome(a1, c1, a2, c2) ==
    LET v1 == AtLeast1d(a1)
        v2 == AtLeast1d(a2)
        w1 == AtLeast2d(c1)
        w2 == AtLeast2d(c2)
    IN IF v1.shape # v2.shape \/ w1.shape # w2.shape
       THEN [pc |-> "AssertionError", ret |-> NoValue, m |-> 0, fallback |-> 0]
       ELSE IF ~DotDefined(w1, w2)
       THEN [pc |-> "ValueError", ret |-> NoValue, m |-> 0, fallback |-> 0]
       ELSE LET prod == Dot(w1, w2)
                first == Sqrtm(prod)
                again == NeedsFallback(first, prod)
                root == IF again
                        THEN Sqrtm(Dot(AddOffset(w1, Eps), AddOffset(w2, Eps)))
                        ELSE first
                fb == IF again THEN 1 ELSE 0
            IN IF IsComplexObj(root) /\ ~DiagImagClose(root)
               THEN [pc |-> "ValueError", ret |-> NoValue, m |-> MaxAbsImag(root),
                     fallback |-> fb]
               ELSE [pc |-> "returned",
                     ret |-> Distance(Sub(v1, v2), w1, w2,
                                      TraceCx(IF IsComplexObj(root)
                                              THEN RealPart(root) ELSE root)),
                     m |-> 0, fallback |-> fb]

C2_AsStated ==
    (~file_exists /\ mpc # "start")
    => /\ mpc = "exited"
       /\ exit_status # 0
       /\ out = <<"could not find precomputed lsun stats, exiting">>
       /\ nloads = 0 /\ apc = "idle" /\ fed = <<>> /\ fpc = "idle"

\* the activation matrix of the worked example
ExampleRows == <<<<1, 2>>, <<3, 4>>, <<5, 6>>>>

\* C9: the candidate summary handed to the evaluator is taken from all N
\* rows of the activation matrix: the mean of each column (length D) and the
\* covariance normalised by N - 1, 0-d for D = 1 and D x D otherwise, hence
\* D x D after promotion; rows [1,2],[3,4],[5,6] give [3,4] and
\* [[4,4],[4,4]]; for D = 1 against a reference of dimension 1 the shape
\* assertions pass.
C9_Moments ==
    mpc \in {"fid1", "fid2"} =>
        LET n == Len(act2)
            d == arg_dims
            sx(j) == ColSum(act2, j)
            sxy(j, k) == SumTo([r \in 1..n |-> act2[r][j] * act2[r][k]], n)
            cov(j, k) == s2.data[(j - 1) * d + k]
        IN /\ n = Len(input_file)
           /\ \A r \in 1..n : act2[r] = Features(np_array[r], d)
           /\ mpc = "fid1" =>
                 \A r \in 1..n : act2[r] = Features(Rescale(input_file[r]), d)
           /\ fdin.mu2 = m2 /\ fdin.sigma2 = s2
           /\ fdin.mu1 = file_stats[1] /\ fdin.sigma1 = file_stats[2]
           /\ m2.shape = <<d>>
           /\ s2.shape = (IF d = 1 THEN <<>> ELSE <<d, d>>)
           /\ Shape2d(s2.shape) = <<d, d>>
           /\ \A j \in 1..d :
                 /\ n * m2.data[j] <= sx(j) /\ sx(j) < n * m2.data[j] + n
           /\ \A j \in 1..d : \A k \in 1..d :
                 LET c == n * sxy(j, k) - sx(j) * sx(k)
                 IN (sx(j) % n = 0 /\ sx(k) % n = 0 /\ c % (n * (n - 1)) = 0)
                    => n * (n - 1) * cov(j, k) = c
           /\ act2 = ExampleRows => (m2.data = <<3, 4>> /\ s2.data = <<4, 4, 4, 4>>)
           /\ (d = 1 /\ fpc # "start" /\ Shape1d(file_stats[1].shape) = <<1>>
                     /\ Shape2d(file_stats[2].shape) = <<1, 1>>)
              => fpc # "AssertionError"

\* the worked example went through the evaluator
C9_Witness ==
    /\ mpc = "fid1" /\ fpc = "returned"
    /\ act2 = ExampleRows
    /\ m2 = Arr(<<2>>, <<3, 4>>) /\ s2 = Arr(<<2, 2>>, <<4, 4, 4, 4>>)

====
